---- MODULE Spec2Model ----
(***************************************************************************)
(* Model of the download path of dorman-lakely-cartography:               *)
(*   ConcurrentDownloadManager (src/src/services/patreon-auth-service.ts)  *)
(*   FileUploadService         (src/unnamed/part_003)                      *)
(*                                                                         *)
(* JavaScript runs every synchronous segment to completion, so one action  *)
(* of the model is one segment between two macrotask suspension points     *)
(* (the awaits on game.settings.set, FilePicker.browse, fetch and          *)
(* FilePicker.upload).  Continuations that are only separated by promise   *)
(* microtasks (downloadFile returning into the worker loop, the worker     *)
(* claiming its next item) belong to the same action.  abort() is a call   *)
(* from a UI event and may happen between any two such segments.           *)
(*                                                                         *)
(* Files of one process() call are numbered 1..nfiles in input order.      *)
(***************************************************************************)
EXTENDS Naturals, Integers, Sequences, FiniteSets, TLC

\* ---------------------------------------------------------------- bounds
MaxFiles == 3
MaxConc  == 2
MaxRuns  == 2
MaxPathLen == 3
MaxTime == 3

Min(a, b) == IF a < b THEN a ELSE b
Max(a, b) == IF a > b THEN a ELSE b

\* worker promises that can exist in one process() call
Workers == 1 .. Max(MaxFiles, MaxConc)

VARIABLES
  concurrency,      \* this.concurrency
  hang,             \* the collaborator call that never returns, if any
  pc,               \* position of process(): idle, disabling, waiting, enabling,
                    \* done (resolved); enabling_catch, rejected (catch path)
  nfiles,           \* |files| of the current process() call
  runs,             \* process() calls made on this manager
  queue,            \* this.queue: file numbers still unclaimed
  results,          \* this.results: sequence of DownloadResult
  aborted,          \* this.aborted
  activeDownloads,  \* this.activeDownloads: worker promises not yet settled
  awaited,          \* the Array.from(activeDownloads) snapshot given to Promise.all
  status,           \* item.status of every DownloadQueueItem built by process()
  wpc,              \* position of each worker: unlaunched, exists, fetch, upload,
                    \* finished (promise fulfilled), rejected
  witem,            \* file a worker is transferring (0: none)
  remappedPaths,    \* the remappedPaths argument of process()
  userId,           \* APIService.userId
  mapAccess,        \* map.access of the map that is downloaded
  consumer,         \* whose callbacks the manager was given: plain (they
                    \* only record their arguments) or dialog (DownloadDialog)
  throws,           \* the callback that throws, and the file it throws for
  \* DownloadDialog
  downloading,      \* this.downloading
  completed,        \* this.completed
  sceneImports,     \* importScene calls
  autoClose,        \* the closing timer of onDownloadComplete is scheduled
  remappedPath,     \* item.remappedPath of every DownloadQueueItem
  noCanvas,         \* game setting core.noCanvas
  mediaOptimizerOriginalState,  \* FileUploadService field: <<>> for null, else <<b>>
  \* what the collaborators and the callbacks observed
  existsCalls,      \* fileService.fileExists invocations per file
  fetchCalls,       \* apiService.downloadFile invocations per file
  uploadCalls,      \* fileService.uploadFile invocations per file
  existsArg,        \* the path given to fileService.fileExists, per file
  uploadArg,        \* the path given to fileService.uploadFile, per file
  optimizerCalls,   \* disableMediaOptimizer / enableMediaOptimizer invocations
  progress,         \* arguments of the onProgress calls, in order
  fileComplete,     \* arguments of the onFileComplete calls, in order
  onCompleteCalls,  \* arguments of the onComplete calls, in order
  \* history of the run
  workersLaunched,  \* startWorker calls of the launch loop
  claimed,          \* files taken from the queue by a worker
  existsTrue,       \* files for which fileExists returned true
  failed,           \* files whose fetch or upload failed
  abortedRun,       \* abort() was called while process() was in progress
  abortedBeforeLaunch, \* ... and before the launch loop ran
  pendingAtAbort,   \* files still pending at an abort() of this run
  inflightAtAbort,  \* files downloading/processing at an abort() of this run
  prevAborted,      \* abort() was called during an earlier process() call
  \* what is recorded about a run beyond what the program keeps
  observe,          \* the history that is recorded: none, idleAbort, browse
  browseFailed,     \* files for which the browse call of fileExists failed
  idleAborted,      \* abort() on the idle manager: no, idle (since the last
                    \* process() call ended), before (before the current call)
  noCanvasBefore,   \* core.noCanvas before any process() call was made
  \* PatreonAuthService.login
  authPc,           \* position of login(): idle, saving_id, timer, checking,
                    \* saving_user, returned
  attempt,          \* the loop variable of pollForAuthentication
  checks,           \* checkUserStatus calls made
  yielded,          \* the user data of the first check that yielded a user
  loginResult,      \* what login() returned
  userSetting,      \* the stored 'user' setting
  dlcUser,          \* game.dlcMaps.user
  userBefore,       \* the stored user before login() was called
  \* a second manager, of another dialog, with its own FileUploadService
  pc2,              \* position of its process(): idle, disabling, waiting,
                    \* enabling, done
  original2,        \* mediaOptimizerOriginalState of its FileUploadService
  \* DownloadDialog: the remap table and a lookup in it
  lkPc,             \* off, start, built (table built), found (lookup returned)
  logical,          \* the path that the manifest and the scene both name
  filePath,         \* file.path of the manifest, as a sequence of characters
  requestPath,      \* the path of the scene data that is looked up
  dialogTable,      \* this.remappedPaths of the dialog
  lookup,           \* what findRemappedPath returned
  \* APIService: the cached catalogue requests fetchTags and fetchMaps
  storage,          \* localStorage: per cache key, NoEntry or [data, timestamp]
  now,              \* Date.now(), in units of the cache expiry
  listPc,           \* per cache key: idle, or fetching (suspended in fetch)
  listResult,       \* per cache key: what the last call returned
  listOutcome,      \* per cache key: how the last call ended
  expiredAtCall     \* per cache key: the data of the entry that was stored
                    \* but expired when the last call started

argVars  == <<remappedPath, existsArg, uploadArg>>
mgrVars  == <<queue, results, aborted, activeDownloads, status, wpc, witem,
              existsCalls, fetchCalls, uploadCalls, progress, fileComplete,
              claimed, argVars>>
procVars == <<concurrency, hang, runs, prevAborted, pc, nfiles, awaited, noCanvas,
              mediaOptimizerOriginalState, optimizerCalls, onCompleteCalls,
              workersLaunched>>
histVars == <<existsTrue, failed, abortedRun, abortedBeforeLaunch,
              pendingAtAbort, inflightAtAbort>>
obsVars  == <<observe, idleAborted, browseFailed>>
\* what the actions of the download manager leave alone
lookupVars == <<lkPc, logical, filePath, requestPath, dialogTable, lookup>>
\* the download manager and its file service
envVars == <<remappedPaths, userId, mapAccess, consumer, throws>>
dlgVars == <<downloading, completed, sceneImports, autoClose>>
dlVars == <<mgrVars, procVars, histVars, obsVars, envVars, dlgVars>>
cacheVars == <<storage, now, listPc, listResult, listOutcome, expiredAtCall>>
mgr2Vars == <<pc2, original2>>
authVars == <<authPc, attempt, checks, yielded, loginResult, userSetting,
              dlcUser, userBefore>>
restVars == <<observe, envVars, authVars, noCanvasBefore, mgr2Vars, lookupVars,
              cacheVars>>
vars == <<dlVars, authVars, noCanvasBefore, mgr2Vars, lookupVars, cacheVars>>

\* ---------------------------------------------------- percent-encoding

\* Paths are sequences of characters.  A name is written with a letter, the
\* space, the separator and the percent sign; the digits only occur in the
\* escapes %20, %2F and %25 of the last three.
NameChars == {"x", " ", "/", "%"}
Escape(c) ==
  CASE c = " " -> <<"%", "2", "0">>
    [] c = "/" -> <<"%", "2", "F">>
    [] c = "%" -> <<"%", "2", "5">>
    [] OTHER   -> <<c>>

\* encodeURIComponent: every character but the unreserved ones is escaped,
\* the separator included
RECURSIVE EncodeURIComponent(_)
EncodeURIComponent(str) ==
  IF str = <<>> THEN <<>>
  ELSE Escape(Head(str)) \o EncodeURIComponent(Tail(str))

\* decodeURIComponent: [ok |-> FALSE] stands for the URIError thrown on a
\* percent sign that is not followed by an escape's two hex digits
Unescape(h1, h2) ==
  CASE h1 = "2" /\ h2 = "0" -> " "
    [] h1 = "2" /\ h2 = "F" -> "/"
    [] h1 = "2" /\ h2 = "5" -> "%"
    [] OTHER -> "malformed"

RECURSIVE DecodeURIComponent(_)
DecodeURIComponent(str) ==
  IF str = <<>> THEN [ok |-> TRUE, str |-> <<>>]
  ELSE IF Head(str) # "%"
  THEN LET r == DecodeURIComponent(Tail(str))
       IN  [ok |-> r.ok, str |-> <<Head(str)>> \o r.str]
  ELSE IF Len(str) < 3 \/ Unescape(str[2], str[3]) = "malformed"
  THEN [ok |-> FALSE, str |-> <<>>]
  ELSE LET r == DecodeURIComponent(SubSeq(str, 4, Len(str)))
       IN  [ok |-> r.ok, str |-> <<Unescape(str[2], str[3])>> \o r.str]

\* the names of at most MaxPathLen characters
LogicalPaths == UNION {[1 .. n -> NameChars] : n \in 1 .. MaxPathLen}

\* The percent-encodings of a name: the percent sign is always escaped, the
\* space and the separator may be.
RECURSIVE Encodings(_)
Encodings(name) ==
  IF name = <<>> THEN {<<>>}
  ELSE LET c == Head(name)
           heads == IF c = "%" THEN {Escape(c)}
                    ELSE IF c = "x" THEN {<<c>>}
                    ELSE {<<c>>, Escape(c)}
       IN  {h \o t : h \in heads, t \in Encodings(Tail(name))}

\* the textual forms of a name: as it is, or percent-encoded
Forms(name) == {name} \cup Encodings(name)

\* ----------------------------------------------- the dialog's remap table

Null == <<"null">>

\* originalPath.split('/').pop() || 'file'
RECURSIVE LastSegment(_)
LastSegment(str) ==
  IF \E i \in 1 .. Len(str) : str[i] = "/"
  THEN LastSegment(Tail(str))
  ELSE str

\* remapFilePath: base path, subfolder and the decoded file name
RemapFilePath(path) ==
  LET seg == LastSegment(path)
      fileName == IF seg = <<>> THEN <<"x">> ELSE seg
      dec == DecodeURIComponent(fileName)
  IN  <<"x", "/">> \o (IF dec.ok THEN dec.str ELSE fileName)

\* a table build that only stores the path as given
TableKeysOriginalOnly(path) == {path}

\* startDownload: the key as given and, when it decodes to something else,
\* the decoded key
TableKeys(path) ==
  {path} \cup (IF DecodeURIComponent(path).ok
               THEN {DecodeURIComponent(path).str}
               ELSE {})

\* findRemappedPath: exact match, then decoded, then encoded
FindRemappedPath(table, originalPath) ==
  LET decoded == DecodeURIComponent(originalPath)
      encoded == EncodeURIComponent(originalPath)
      Value(k) == IF table[k] = <<>> THEN Null ELSE table[k]
  IN  IF originalPath \in DOMAIN table THEN Value(originalPath)
      ELSE IF decoded.ok /\ decoded.str \in DOMAIN table THEN Value(decoded.str)
      ELSE IF encoded \in DOMAIN table THEN Value(encoded)
      ELSE Null

\* ------------------------------------------------ APIService: the cache

CacheKeys == {"dlc-tags", "dlc-maps"}
ListData == {"listA", "listB"}
EmptyList == "[]"
NoEntry == [data |-> "none", timestamp |-> 0]
NoData == "none"

\* game.dlcMaps?.settings.cacheExpiry, the unit of the clock
cacheExpiry == 1

Expired(entry, time, ignoreExpiry) ==
  ~ignoreExpiry /\ time - entry.timestamp > cacheExpiry

\* getFromCache: the value returned (NoData for null) and localStorage after
\* the call, from which an expired entry has been removed
GetFromCache(store, key, time, ignoreExpiry) ==
  IF store[key] = NoEntry THEN [value |-> NoData, storage |-> store]
  ELSE IF Expired(store[key], time, ignoreExpiry)
  THEN [value |-> NoData, storage |-> [store EXCEPT ![key] = NoEntry]]
  ELSE [value |-> store[key].data, storage |-> store]

\* setCache
SetCache(store, key, data, time) ==
  [store EXCEPT ![key] = [data |-> data, timestamp |-> time]]

\* ------------------------------------------------------- manager helpers

\* The fields that the worker code reads and writes, as one value.
Mgr ==
  [queue |-> queue, results |-> results, aborted |-> aborted,
   activeDownloads |-> activeDownloads, status |-> status,
   wpc |-> wpc, witem |-> witem,
   existsCalls |-> existsCalls, fetchCalls |-> fetchCalls,
   uploadCalls |-> uploadCalls, progress |-> progress,
   fileComplete |-> fileComplete, claimed |-> claimed,
   remappedPath |-> remappedPath, existsArg |-> existsArg,
   uploadArg |-> uploadArg]

Install(s) ==
  /\ queue' = s.queue
  /\ results' = s.results
  /\ aborted' = s.aborted
  /\ activeDownloads' = s.activeDownloads
  /\ status' = s.status
  /\ wpc' = s.wpc
  /\ witem' = s.witem
  /\ existsCalls' = s.existsCalls
  /\ fetchCalls' = s.fetchCalls
  /\ uploadCalls' = s.uploadCalls
  /\ progress' = s.progress
  /\ fileComplete' = s.fileComplete
  /\ claimed' = s.claimed
  /\ remappedPath' = s.remappedPath
  /\ existsArg' = s.existsArg
  /\ uploadArg' = s.uploadArg

\* ------------------------------------------------------------------ paths

\* file.path of the file numbered f, and a destination a remap table gives it
Path(f) == <<"original", f>>
Dest(f) == <<"remapped", f>>
Undefined == <<"undefined", 0>>
EmptyString == <<"", 0>>

\* the remappedPaths argument: left out, or a Map from paths to destinations
NoTable == [defined |-> FALSE, map |-> <<>>]
TableFor(files) ==
  [defined |-> TRUE,
   map |-> [p \in {Path(f) : f \in files} |-> Dest(p[2])]]
RemapTables ==
  {NoTable} \cup {TableFor(K) : K \in {{}, {1}, 2 .. MaxFiles, 1 .. MaxFiles}}

\* Map.prototype.get
Get(map, key) == IF key \in DOMAIN map THEN map[key] ELSE Undefined

\* the operand of || that makes it take its right-hand side
Falsy(v) == v \in {Undefined, EmptyString}

\* a queue build that ignores the table
RemappedPathIgnoresTable(table, path) == path

\* remappedPaths?.get(file.path) || file.path
RemappedPath(table, path) ==
  IF ~table.defined THEN path
  ELSE IF Falsy(Get(table.map, path)) THEN path
  ELSE Get(table.map, path)

CountStatus(res, st) == Cardinality({i \in 1 .. Len(res) : res[i].status = st})

\* recordResult that only keeps the successes
RecordResultErrorsDropped(res, f, st, err) ==
  IF st = "error" THEN res
  ELSE Append(res, [file |-> f, status |-> st, error |-> err])

\* recordResult
RecordResult(res, f, st, err) ==
  Append(res, [file |-> f, status |-> st, error |-> err])

\* reportProgress: the snapshot is computed from results and the queue
Snapshot(s, cur) ==
  [totalFiles     |-> Len(s.queue) + Len(s.results),
   completedFiles |-> CountStatus(s.results, "completed"),
   failedFiles    |-> CountStatus(s.results, "error"),
   currentFile    |-> cur]

ReportProgress(s, cur) == [s EXCEPT !.progress = Append(@, Snapshot(s, cur))]

\* getStats
GetStats == Snapshot(Mgr, 0)

\* ------------------------------------------------------------- the worker

\* worker(): the while condition
WorkerContinues(ab, q) == ~ab /\ q # <<>>

\* startWorker's finally block, once the worker promise has settled
WorkerSettled(s, w) ==
  [s EXCEPT !.wpc[w] = "finished", !.witem[w] = 0,
            !.activeDownloads = @ \ {w}]

\* a consumer callback that throws each time it is called for one file
NoThrow == [cb |-> "none", file |-> 0]
Throwing == {NoThrow} \cup [cb : {"onProgress", "onFileComplete"},
                            file : 1 .. MaxFiles]
Throws(cb, f) == throws.cb = cb /\ throws.file = f
CallbackMessage == "callback threw"

\* downloadFile, catch block, entered by what a callback threw: the status
\* and the result entry of an error, then onFileComplete(file, Error)
CallbackCaught(s, f) ==
  [s EXCEPT !.status[f] = "error",
            !.results = RecordResult(@, f, "error", CallbackMessage),
            !.fileComplete = Append(@, <<f, "error">>)]

\* downloadFile up to its first await: status, reportProgress, fileExists(...).
\* When onProgress throws, the catch block runs instead of fileExists and the
\* promise settles at once; the worker goes on in a microtask ("resume").
DownloadFileStart(s, w, f) ==
  LET s1 == [s EXCEPT !.status[f] = "downloading", !.witem[w] = f,
                      !.wpc[w] = "exists", !.claimed = @ \cup {f}]
      s2 == ReportProgress(s1, f)
  IN  IF Throws("onProgress", f)
      THEN [CallbackCaught(s2, f) EXCEPT !.wpc[w] = "resume"]
      ELSE [s2 EXCEPT !.existsCalls[f] = @ + 1,
                      !.existsArg[f] = s.remappedPath[f]]

\* taking the newest item instead of the oldest
Pop(q) == [item |-> q[Len(q)], rest |-> SubSeq(q, 1, Len(q) - 1)]

\* this.queue.shift()
Shift(q) == [item |-> Head(q), rest |-> Tail(q)]

\* worker(): test the loop condition, shift the next item and start on it
WorkerLoop(s, w) ==
  IF WorkerContinues(s.aborted, s.queue)
  THEN DownloadFileStart([s EXCEPT !.queue = Shift(s.queue).rest], w,
                         Shift(s.queue).item)
  ELSE WorkerSettled(s, w)

\* startWorker(): runs worker() synchronously up to its first await and adds
\* the promise to activeDownloads
StartWorker(s, w) ==
  WorkerLoop([s EXCEPT !.activeDownloads = @ \cup {w}], w)

\* the microtasks left when the running code suspends: every worker whose
\* downloadFile settled without suspending goes round its loop again
RECURSIVE Microtasks(_)
Microtasks(s) ==
  IF \E w \in Workers : s.wpc[w] = "resume"
  THEN LET w == CHOOSE v \in Workers :
                  /\ s.wpc[v] = "resume"
                  /\ \A u \in Workers : s.wpc[u] = "resume" => v <= u
       IN  Microtasks(WorkerLoop(s, w))
  ELSE s

\* launch loop that forgets the concurrency cap
LaunchMoreNoCap(i, c, qlen) == i < qlen

\* launch loop that forgets the queue length
LaunchMoreIgnoresQueue(i, c, qlen) == i < c

\* process(): the condition of the launch loop, re-evaluated per iteration
LaunchMore(i, c, qlen) == i < Min(c, qlen)

RECURSIVE LaunchLoop(_, _)
LaunchLoop(i, s) ==
  IF i < Cardinality(Workers) /\ LaunchMore(i, concurrency, Len(s.queue))
  THEN LaunchLoop(i + 1, StartWorker(s, i + 1))
  ELSE [launched |-> i, s |-> s]

\* FileUploadService.fileExists: a failing browse means "does not exist"
BrowseOutcomes == {"found", "absent", "browse_error"}

\* fileExists that takes a failed browse for an existing file
FileExistsUnlessAbsent(outcome) == outcome # "absent"

FileExists(outcome) == outcome = "found"

\* exists branch that never skips
SkipDownloadNever(exists) == FALSE

\* downloadFile: if (exists) { ...; return; }
SkipDownload(exists) == exists

\* downloadFile, exists branch
DownloadSkipped(s, f) ==
  [s EXCEPT !.status[f] = "completed",
            !.results = RecordResult(@, f, "completed", "none")]

\* downloadFile, after a successful upload.  onFileComplete is called inside
\* the try block: when it throws, the catch block runs for a file that already
\* has its result entry (and calls onFileComplete again; what that call
\* throws rejects downloadFile and is swallowed by the catch of worker()).
DownloadCompleted(s, f) ==
  LET done == [s EXCEPT !.status[f] = "completed",
                        !.results = RecordResult(@, f, "completed", "none"),
                        !.fileComplete = Append(@, <<f, "completed">>)]
  IN  IF Throws("onFileComplete", f) THEN CallbackCaught(done, f) ELSE done

\* downloadFile, catch block: item.error is the message of the error caught
DownloadFailedWith(s, f, message) ==
  [s EXCEPT !.status[f] = "error",
            !.results = RecordResult(@, f, "error", message),
            !.fileComplete = Append(@, <<f, "error">>)]

\* ... after a failure of the backend or of the storage
DownloadFailed(s, f) == DownloadFailedWith(s, f, "message")

\* APIService.downloadFile: the guard that throws before any request
NoUser == "null"
UserIdMessage == "User ID is required for downloading Premium map files"
UserIdRequired(isFreeMap, uid) == ~isFreeMap /\ uid = NoUser

\* the manager calls apiService.downloadFile(mapId, file.path): the third
\* parameter takes its default
IsFreeMapDefault == FALSE

\* a failure that ends the worker instead of being swallowed
AfterFailureStops(s, w) == WorkerSettled(s, w)

\* a failure that puts the item back on the queue for another attempt
AfterFailureRetries(s, w) ==
  WorkerLoop([s EXCEPT !.queue = Append(@, s.witem[w])], w)

\* a failure that is rethrown and rejects the worker promise
AfterFailureRejects(s, w) ==
  [s EXCEPT !.wpc[w] = "rejected", !.witem[w] = 0,
            !.activeDownloads = @ \ {w}]

\* the catch block swallows the error, so the worker loop goes on
AfterFailure(s, w) == WorkerLoop(s, w)

\* ----------------------------------------------------------------- actions

\* A fetch or an upload of one file that never resolves; NoHang: every call
\* returns or fails.
NoHang == [file |-> 0, stage |-> "none"]
Hangs == {NoHang} \cup [file : 1 .. MaxFiles, stage : {"fetch", "upload"}]

\* the awaited call of the given stage for file f settles
Returns(stage, f) == ~(hang.stage = stage /\ hang.file = f)

\* field initialisers of the manager and of the file service
InitFields ==
  /\ pc = "idle"
  /\ runs = 0
  /\ prevAborted = FALSE
  /\ nfiles = 0
  /\ queue = <<>>
  /\ remappedPath = <<>>
  /\ existsArg = <<>>
  /\ uploadArg = <<>>
  /\ results = <<>>
  /\ aborted = FALSE
  /\ activeDownloads = {}
  /\ awaited = {}
  /\ status = <<>>
  /\ wpc = [w \in Workers |-> "unlaunched"]
  /\ witem = [w \in Workers |-> 0]
  /\ noCanvas \in BOOLEAN
  /\ mediaOptimizerOriginalState = <<>>
  /\ existsCalls = <<>>
  /\ fetchCalls = <<>>
  /\ uploadCalls = <<>>
  /\ optimizerCalls = 0
  /\ progress = <<>>
  /\ fileComplete = <<>>
  /\ onCompleteCalls = <<>>
  /\ workersLaunched = 0
  /\ claimed = {}
  /\ existsTrue = {}
  /\ failed = {}
  /\ abortedRun = FALSE
  /\ abortedBeforeLaunch = FALSE
  /\ pendingAtAbort = {}
  /\ inflightAtAbort = {}
  /\ idleAborted = "no"
  /\ browseFailed = {}
  /\ noCanvasBefore = noCanvas
  /\ downloading = FALSE
  /\ completed = FALSE
  /\ sceneImports = 0
  /\ autoClose = FALSE
  /\ pc2 = "idle"
  /\ original2 = <<>>

\* no dialog lookup is modelled
LookupOff ==
  /\ lkPc = "off"
  /\ logical = <<>>
  /\ filePath = <<>>
  /\ requestPath = <<>>
  /\ dialogTable = <<>>
  /\ lookup = Null

\* a new APIService over an empty localStorage
CacheInit ==
  /\ storage = [k \in CacheKeys |-> NoEntry]
  /\ now = 0
  /\ listPc = [k \in CacheKeys |-> "idle"]
  /\ listResult = [k \in CacheKeys |-> NoData]
  /\ listOutcome = [k \in CacheKeys |-> "none"]
  /\ expiredAtCall = [k \in CacheKeys |-> NoData]

\* the parts of the module other than the download manager are not running
\* nobody logs in; no user is stored
UserData == {"userA", "userB"}
NullData == "null"
AuthOff ==
  /\ authPc = "idle"
  /\ attempt = 0
  /\ checks = 0
  /\ yielded = NullData
  /\ loginResult = "none"
  /\ userSetting = NullData
  /\ dlcUser = NullData
  /\ userBefore = NullData

OthersOff == LookupOff /\ CacheInit /\ AuthOff

\* new ConcurrentDownloadManager(concurrency, ...) with a valid concurrency
Init ==
  /\ concurrency \in 1 .. MaxConc
  /\ hang = NoHang
  /\ observe = "none"
  /\ remappedPaths = NoTable
  /\ consumer = "plain"
  /\ throws = NoThrow
  /\ userId = "uid"
  /\ mapAccess = "Premium"
  /\ InitFields
  /\ OthersOff

\* ... with collaborators of which one call may never return
InitHang ==
  /\ concurrency \in 1 .. MaxConc
  /\ hang \in Hangs
  /\ observe = "none"
  /\ remappedPaths = NoTable
  /\ consumer = "plain"
  /\ throws = NoThrow
  /\ userId = "uid"
  /\ mapAccess = "Premium"
  /\ InitFields
  /\ OthersOff

\* the constructor stores any number it is given; 0 stands for every
\* concurrency below 1 (the launch loop only compares it with i >= 0)
InitAnyConcurrency ==
  /\ concurrency \in 0 .. MaxConc
  /\ hang = NoHang
  /\ observe = "none"
  /\ remappedPaths = NoTable
  /\ consumer = "plain"
  /\ throws = NoThrow
  /\ userId = "uid"
  /\ mapAccess = "Premium"
  /\ InitFields
  /\ OthersOff

\* ... whose abort() calls on the idle manager are recorded
InitIdleAbort ==
  /\ concurrency \in 1 .. MaxConc
  /\ hang = NoHang
  /\ observe = "idleAbort"
  /\ remappedPaths = NoTable
  /\ consumer = "plain"
  /\ throws = NoThrow
  /\ userId = "uid"
  /\ mapAccess = "Premium"
  /\ InitFields
  /\ OthersOff

\* process() that forgets to reset results and the aborted flag
ResetKeepsState(s) == [s EXCEPT !.queue = <<>>, !.activeDownloads = {}]

\* process() that forgets to lower the aborted flag
ResetKeepsAborted(s) ==
  [s EXCEPT !.queue = <<>>, !.activeDownloads = {}, !.results = <<>>]

\* process(): the four resetting assignments
Reset(s) ==
  [s EXCEPT !.queue = <<>>, !.activeDownloads = {}, !.results = <<>>,
            !.aborted = FALSE]

\* process(): the queue built from the files, one pending item per file
BuildQueue(s, n) ==
  [s EXCEPT !.queue = s.queue \o [i \in 1 .. n |-> i],
            !.status = [i \in 1 .. n |-> "pending"],
            !.remappedPath =
               [i \in 1 .. n |-> RemappedPath(remappedPaths, Path(i))]]

\* DownloadDialog.startDownload, entered unless downloading or completed,
\* before it calls process()
StartDownload ==
  /\ downloading' = TRUE
  /\ UNCHANGED <<completed, sceneImports, autoClose>>

\* the catch of DownloadDialog.startDownload, entered when process() rejects
StartDownloadCatch ==
  /\ downloading' = FALSE
  /\ UNCHANGED <<completed, sceneImports, autoClose>>

\* DownloadDialog.onDownloadComplete, the dialog's onComplete callback.  No
\* scene.json blob ever reaches the dialog (the manager calls onFileComplete
\* without one), so importScene returns before its first await and
\* this.completed is set in the same turn.
OnDownloadComplete(res) ==
  LET failCount == CountStatus(res, "error")
  IN  /\ downloading' = FALSE
      /\ sceneImports' = IF failCount = 0 THEN sceneImports + 1 ELSE sceneImports
      /\ completed' = (completed \/ failCount = 0)
      /\ autoClose' = (autoClose \/ failCount = 0)

\* DownloadDialog._onCancelDownload, after it has called abort()
CancelDownload ==
  /\ downloading' = FALSE
  /\ UNCHANGED <<completed, sceneImports, autoClose>>

\* process(mapId, files): reset, build the queue, call disableMediaOptimizer,
\* which reads the setting and suspends in game.settings.set.  The worker
\* promises, the collaborator and callback logs and the history are those of
\* the new invocation.
ProcessCall(n) ==
  /\ Install([BuildQueue(Reset(Mgr), n) EXCEPT
                !.wpc = [w \in Workers |-> "unlaunched"],
                !.witem = [w \in Workers |-> 0],
                !.existsCalls = [i \in 1 .. n |-> 0],
                !.fetchCalls = [i \in 1 .. n |-> 0],
                !.uploadCalls = [i \in 1 .. n |-> 0],
                !.existsArg = [i \in 1 .. n |-> Undefined],
                !.uploadArg = [i \in 1 .. n |-> Undefined],
                !.progress = <<>>,
                !.fileComplete = <<>>,
                !.claimed = {}])
  /\ pc' = "disabling"
  /\ nfiles' = n
  /\ runs' = runs + 1
  /\ prevAborted' = (prevAborted \/ abortedRun)
  /\ mediaOptimizerOriginalState' = <<noCanvas>>
  /\ optimizerCalls' = 1
  /\ awaited' = {}
  /\ onCompleteCalls' = <<>>
  /\ workersLaunched' = 0
  /\ existsTrue' = {}
  /\ failed' = {}
  /\ abortedRun' = FALSE
  /\ abortedBeforeLaunch' = FALSE
  /\ pendingAtAbort' = {}
  /\ inflightAtAbort' = {}
  /\ idleAborted' = IF idleAborted = "idle" THEN "before" ELSE "no"
  /\ browseFailed' = {}
  /\ IF consumer = "dialog"
     THEN ~downloading /\ ~completed /\ StartDownload
     ELSE UNCHANGED dlgVars
  /\ UNCHANGED <<concurrency, hang, noCanvas, restVars>>

\* the first process() call on a new manager
Process(n) ==
  /\ pc = "idle"
  /\ ProcessCall(n)

\* process() called again after the previous call has resolved
ProcessAgain(n) ==
  /\ pc = "done"
  /\ runs < MaxRuns
  /\ ProcessCall(n)

\* game.settings.set of disableMediaOptimizer returns (a failure is caught),
\* then process() runs its launch loop and suspends in Promise.all
DisableReturn(ok) ==
  /\ pc = "disabling"
  /\ noCanvas' = IF ok THEN TRUE ELSE noCanvas
  /\ LET r == LaunchLoop(0, Mgr)
     IN  /\ Install(Microtasks(r.s))
         /\ workersLaunched' = r.launched
         /\ awaited' = 1 .. r.launched
  /\ pc' = "waiting"
  /\ UNCHANGED <<concurrency, hang, runs, prevAborted, nfiles, mediaOptimizerOriginalState,
                 optimizerCalls, onCompleteCalls, histVars, idleAborted, browseFailed,
                 dlgVars, restVars>>

\* FilePicker.browse of fileExists returns for the file of worker w; unless
\* the file exists, downloadFile calls apiService.downloadFile, which either
\* throws at its user id guard or suspends in fetch
ExistsReturn(w, outcome) ==
  /\ wpc[w] = "exists"
  /\ LET f == witem[w]
         exists == FileExists(outcome)
         called == [Mgr EXCEPT !.fetchCalls[f] = @ + 1]
         rejects == UserIdRequired(IsFreeMapDefault, userId)
     IN  /\ IF SkipDownload(exists)
            THEN Install(Microtasks(WorkerLoop(DownloadSkipped(Mgr, f), w)))
            ELSE IF rejects
            THEN Install(Microtasks(AfterFailure(
                           DownloadFailedWith(called, f, UserIdMessage), w)))
            ELSE Install([called EXCEPT !.wpc[w] = "fetch"])
         /\ existsTrue' = IF exists THEN existsTrue \cup {f} ELSE existsTrue
         /\ failed' = IF ~SkipDownload(exists) /\ rejects
                       THEN failed \cup {f} ELSE failed
         /\ browseFailed' =
              IF observe = "browse" /\ outcome = "browse_error"
              THEN browseFailed \cup {f} ELSE browseFailed
  /\ UNCHANGED <<procVars, abortedRun, abortedBeforeLaunch,
                 pendingAtAbort, inflightAtAbort, idleAborted, dlgVars,
                 restVars>>

\* apiService.downloadFile returns a blob or throws
FetchReturn(w, ok) ==
  /\ wpc[w] = "fetch"
  /\ Returns("fetch", witem[w])
  /\ LET f == witem[w]
     IN  /\ IF ok
            THEN Install([Mgr EXCEPT !.status[f] = "processing",
                                     !.uploadCalls[f] = @ + 1,
                                     !.uploadArg[f] = remappedPath[f],
                                     !.wpc[w] = "upload"])
            ELSE Install(Microtasks(AfterFailure(DownloadFailed(Mgr, f), w)))
         /\ failed' = IF ok THEN failed ELSE failed \cup {f}
  /\ UNCHANGED <<procVars, existsTrue, abortedRun, abortedBeforeLaunch,
                 pendingAtAbort, inflightAtAbort, idleAborted, browseFailed, dlgVars,
                 restVars>>

\* fileService.uploadFile returns or throws
UploadReturn(w, ok) ==
  /\ wpc[w] = "upload"
  /\ Returns("upload", witem[w])
  /\ LET f == witem[w]
     IN  /\ IF ok
            THEN Install(Microtasks(WorkerLoop(DownloadCompleted(Mgr, f), w)))
            ELSE Install(Microtasks(AfterFailure(DownloadFailed(Mgr, f), w)))
         /\ failed' = IF ok THEN failed ELSE failed \cup {f}
  /\ UNCHANGED <<procVars, existsTrue, abortedRun, abortedBeforeLaunch,
                 pendingAtAbort, inflightAtAbort, idleAborted, browseFailed, dlgVars,
                 restVars>>

\* Promise.race-like wait: one settled promise is enough
AllSettledAny(aw, wp) == aw = {} \/ \E w \in aw : wp[w] = "finished"

\* Promise.all: every promise of the snapshot has settled
AllSettled(aw, wp) == \A w \in aw : wp[w] = "finished"

\* Promise.all: a promise of the snapshot has rejected
AnyRejected(aw, wp) == \E w \in aw : wp[w] = "rejected"

\* process() after Promise.all: if (this.callbacks.onComplete) ...; return
Complete ==
  /\ onCompleteCalls' = Append(onCompleteCalls, results)
  /\ IF consumer = "dialog" THEN OnDownloadComplete(results)
                            ELSE UNCHANGED dlgVars
  /\ pc' = "done"

\* process(), catch block: throw error
Reject ==
  /\ pc' = "rejected"
  /\ IF consumer = "dialog" THEN StartDownloadCatch ELSE UNCHANGED dlgVars
  /\ UNCHANGED onCompleteCalls

\* process() resumes after Promise.all, in the try block when every worker
\* promise is fulfilled and in the catch block when one has rejected; both
\* call enableMediaOptimizer, which suspends in game.settings.set unless no
\* original state was saved
AllSettledWake ==
  /\ pc = "waiting"
  /\ AllSettled(awaited, wpc) \/ AnyRejected(awaited, wpc)
  /\ optimizerCalls' = optimizerCalls + 1
  /\ IF AnyRejected(awaited, wpc)
     THEN IF mediaOptimizerOriginalState # <<>>
          THEN pc' = "enabling_catch" /\ UNCHANGED <<onCompleteCalls, dlgVars>>
          ELSE Reject
     ELSE IF mediaOptimizerOriginalState # <<>>
          THEN pc' = "enabling" /\ UNCHANGED <<onCompleteCalls, dlgVars>>
          ELSE Complete
  /\ UNCHANGED <<mgrVars, concurrency, hang, runs, prevAborted, nfiles, awaited, noCanvas,
                 mediaOptimizerOriginalState, workersLaunched, histVars,
                 idleAborted, browseFailed, restVars>>

\* game.settings.set of enableMediaOptimizer returns (a failure is caught);
\* process() then reports completion and resolves, or rethrows in its catch
EnableReturn(ok) ==
  /\ pc \in {"enabling", "enabling_catch"}
  /\ IF ok
     THEN /\ noCanvas' = Head(mediaOptimizerOriginalState)
          /\ mediaOptimizerOriginalState' = <<>>
     ELSE UNCHANGED <<noCanvas, mediaOptimizerOriginalState>>
  /\ IF pc = "enabling" THEN Complete ELSE Reject
  /\ UNCHANGED <<mgrVars, concurrency, hang, runs, prevAborted, nfiles, awaited, optimizerCalls,
                 workersLaunched, histVars, idleAborted, browseFailed, restVars>>

InProgress == pc \in {"disabling", "waiting", "enabling", "enabling_catch"}

WithStatus(sts) == {f \in 1 .. Len(status) : status[f] \in sts}

\* abort() that only logs
AbortOnlyLogs ==
  /\ abortedRun' = (abortedRun \/ InProgress)
  /\ abortedBeforeLaunch' = (abortedBeforeLaunch \/ pc = "disabling")
  /\ pendingAtAbort' =
       IF InProgress THEN pendingAtAbort \cup WithStatus({"pending"})
                     ELSE pendingAtAbort
  /\ inflightAtAbort' =
       IF InProgress
       THEN inflightAtAbort \cup WithStatus({"downloading", "processing"})
       ELSE inflightAtAbort
  /\ idleAborted' =
       IF observe = "idleAbort" /\ ~InProgress THEN "idle" ELSE idleAborted
  /\ UNCHANGED browseFailed
  /\ IF consumer = "dialog" THEN CancelDownload ELSE UNCHANGED dlgVars
  /\ UNCHANGED <<mgrVars, procVars, existsTrue, failed, restVars>>

\* abort() that also cancels the transfers in flight
AbortPreemptive ==
  /\ aborted' = TRUE
  /\ queue' = <<>>
  /\ wpc' = [w \in Workers |->
               IF wpc[w] \in {"exists", "fetch", "upload"} THEN "finished"
               ELSE wpc[w]]
  /\ witem' = [w \in Workers |-> 0]
  /\ activeDownloads' = {}
  /\ abortedRun' = (abortedRun \/ InProgress)
  /\ abortedBeforeLaunch' = (abortedBeforeLaunch \/ pc = "disabling")
  /\ pendingAtAbort' =
       IF InProgress THEN pendingAtAbort \cup WithStatus({"pending"})
                     ELSE pendingAtAbort
  /\ inflightAtAbort' =
       IF InProgress
       THEN inflightAtAbort \cup WithStatus({"downloading", "processing"})
       ELSE inflightAtAbort
  /\ idleAborted' =
       IF observe = "idleAbort" /\ ~InProgress THEN "idle" ELSE idleAborted
  /\ UNCHANGED browseFailed
  /\ IF consumer = "dialog" THEN CancelDownload ELSE UNCHANGED dlgVars
  /\ UNCHANGED <<results, status, existsCalls, fetchCalls, uploadCalls,
                 progress, fileComplete, claimed, argVars, procVars, existsTrue,
                 failed, restVars>>

\* abort() that also throws away the results recorded so far
AbortClearsResults ==
  /\ aborted' = TRUE
  /\ queue' = <<>>
  /\ results' = <<>>
  /\ abortedRun' = (abortedRun \/ InProgress)
  /\ abortedBeforeLaunch' = (abortedBeforeLaunch \/ pc = "disabling")
  /\ pendingAtAbort' =
       IF InProgress THEN pendingAtAbort \cup WithStatus({"pending"})
                     ELSE pendingAtAbort
  /\ inflightAtAbort' =
       IF InProgress
       THEN inflightAtAbort \cup WithStatus({"downloading", "processing"})
       ELSE inflightAtAbort
  /\ idleAborted' =
       IF observe = "idleAbort" /\ ~InProgress THEN "idle" ELSE idleAborted
  /\ UNCHANGED browseFailed
  /\ IF consumer = "dialog" THEN CancelDownload ELSE UNCHANGED dlgVars
  /\ UNCHANGED <<activeDownloads, status, wpc, witem, existsCalls,
                 fetchCalls, uploadCalls, progress, fileComplete, claimed,
                 argVars, procVars, existsTrue, failed, restVars>>

\* abort()
Abort ==
  /\ aborted' = TRUE
  /\ queue' = <<>>
  /\ abortedRun' = (abortedRun \/ InProgress)
  /\ abortedBeforeLaunch' = (abortedBeforeLaunch \/ pc = "disabling")
  /\ pendingAtAbort' =
       IF InProgress THEN pendingAtAbort \cup WithStatus({"pending"})
                     ELSE pendingAtAbort
  /\ inflightAtAbort' =
       IF InProgress
       THEN inflightAtAbort \cup WithStatus({"downloading", "processing"})
       ELSE inflightAtAbort
  /\ idleAborted' =
       IF observe = "idleAbort" /\ ~InProgress THEN "idle" ELSE idleAborted
  /\ UNCHANGED browseFailed
  /\ IF consumer = "dialog" THEN CancelDownload ELSE UNCHANGED dlgVars
  /\ UNCHANGED <<results, activeDownloads, status, wpc, witem, existsCalls,
                 fetchCalls, uploadCalls, progress, fileComplete, claimed,
                 argVars, procVars, existsTrue, failed, restVars>>

Next ==
  \/ \E n \in 0 .. MaxFiles : Process(n)
  \/ \E ok \in BOOLEAN : DisableReturn(ok)
  \/ \E w \in Workers, o \in BrowseOutcomes : ExistsReturn(w, o)
  \/ \E w \in Workers, ok \in BOOLEAN : FetchReturn(w, ok)
  \/ \E w \in Workers, ok \in BOOLEAN : UploadReturn(w, ok)
  \/ AllSettledWake
  \/ \E ok \in BOOLEAN : EnableReturn(ok)
  \/ Abort

Spec == Init /\ [][Next]_vars

\* the manager re-used for further process() calls after one has resolved
NextReuse ==
  \/ Next
  \/ \E n \in 0 .. MaxFiles : ProcessAgain(n)

ReuseSpec == Init /\ [][NextReuse]_vars

\* the manager given a remap table
InitRemap ==
  /\ concurrency \in 1 .. MaxConc
  /\ hang = NoHang
  /\ observe = "none"
  /\ remappedPaths \in RemapTables
  /\ consumer = "plain"
  /\ throws = NoThrow
  /\ userId = "uid"
  /\ mapAccess = "Premium"
  /\ InitFields
  /\ OthersOff

RemapSpec == InitRemap /\ [][Next]_vars

\* The download dialog opened from the gallery: _onDownloadMap turns away a
\* Premium map unless the user is authenticated, and lets a Free map through
\* with or without a user id.
InitGallery ==
  /\ concurrency \in 1 .. MaxConc
  /\ hang = NoHang
  /\ observe = "none"
  /\ remappedPaths = NoTable
  /\ consumer = "plain"
  /\ throws = NoThrow
  /\ userId \in {NoUser, "uid"}
  /\ mapAccess \in {"Free", "Premium"}
  /\ mapAccess = "Premium" => userId # NoUser
  /\ InitFields
  /\ OthersOff

GallerySpec == InitGallery /\ [][Next]_vars

\* the re-used manager with abort() calls between its process() calls
IdleAbortSpec == InitIdleAbort /\ [][NextReuse]_vars

\* A dialog whose manifest names a file in one textual form and whose scene
\* data asks for a path in a form of the same name or of another name.
InitLookup ==
  /\ concurrency = 1
  /\ hang = NoHang
  /\ observe = "none"
  /\ remappedPaths = NoTable
  /\ consumer = "plain"
  /\ throws = NoThrow
  /\ userId = "uid"
  /\ mapAccess = "Premium"
  /\ InitFields
  /\ lkPc = "start"
  /\ logical \in LogicalPaths
  /\ filePath \in Forms(logical)
  /\ requestPath \in Forms(logical) \cup Forms(<<"x">> \o logical)
  /\ dialogTable = <<>>
  /\ lookup = Null
  /\ CacheInit
  /\ AuthOff

\* startDownload: this.remappedPaths built from the file of the manifest
BuildRemapTable ==
  /\ lkPc = "start"
  /\ dialogTable' = [k \in TableKeys(filePath) |-> RemapFilePath(filePath)]
  /\ lkPc' = "built"
  /\ UNCHANGED <<dlVars, authVars, noCanvasBefore,
                 mgr2Vars, cacheVars, logical, filePath, requestPath, lookup>>

\* updateScenePaths: findRemappedPath(originalPath)
LookupCall ==
  /\ lkPc = "built"
  /\ lookup' = FindRemappedPath(dialogTable, requestPath)
  /\ lkPc' = "found"
  /\ UNCHANGED <<dlVars, authVars, noCanvasBefore,
                 mgr2Vars, cacheVars, logical, filePath, requestPath,
                 dialogTable>>

NextLookup ==
  \/ BuildRemapTable
  \/ LookupCall

LookupSpec == InitLookup /\ [][NextLookup]_vars

\* The catalogue requests of the APIService.
InitCache ==
  /\ concurrency = 1
  /\ hang = NoHang
  /\ observe = "none"
  /\ remappedPaths = NoTable
  /\ consumer = "plain"
  /\ throws = NoThrow
  /\ userId = "uid"
  /\ mapAccess = "Premium"
  /\ InitFields
  /\ OthersOff

\* time passes
Tick ==
  /\ now < MaxTime
  /\ now' = now + 1
  /\ UNCHANGED <<dlVars, authVars, noCanvasBefore,
                 mgr2Vars, lookupVars, storage, listPc, listResult,
                 listOutcome, expiredAtCall>>

\* fetchTags / fetchMaps up to the await of fetch: a fresh cache entry is
\* returned at once, otherwise the request is sent
FetchListCall(k) ==
  /\ listPc[k] = "idle"
  /\ LET r == GetFromCache(storage, k, now, FALSE)
     IN  /\ storage' = r.storage
         /\ expiredAtCall' =
              [expiredAtCall EXCEPT ![k] =
                 IF storage[k] # NoEntry /\ r.value = NoData
                 THEN storage[k].data ELSE NoData]
         /\ IF r.value # NoData
            THEN /\ listResult' = [listResult EXCEPT ![k] = r.value]
                 /\ listOutcome' = [listOutcome EXCEPT ![k] = "cached"]
                 /\ UNCHANGED listPc
            ELSE /\ listPc' = [listPc EXCEPT ![k] = "fetching"]
                 /\ listOutcome' = [listOutcome EXCEPT ![k] = "none"]
                 /\ listResult' = [listResult EXCEPT ![k] = NoData]
  /\ UNCHANGED <<dlVars, authVars, noCanvasBefore,
                 mgr2Vars, lookupVars, now>>

\* the request returns: the list is cached and returned, or, in the catch
\* block, getFromCache(cacheKey, true) || [] is returned
FetchListReturn(k, ok, data) ==
  /\ listPc[k] = "fetching"
  /\ listPc' = [listPc EXCEPT ![k] = "idle"]
  /\ IF ok
     THEN /\ storage' = SetCache(storage, k, data, now)
          /\ listResult' = [listResult EXCEPT ![k] = data]
          /\ listOutcome' = [listOutcome EXCEPT ![k] = "fetched"]
     ELSE LET r == GetFromCache(storage, k, now, TRUE)
          IN  /\ storage' = r.storage
              /\ listResult' =
                   [listResult EXCEPT ![k] =
                      IF r.value = NoData THEN EmptyList ELSE r.value]
              /\ listOutcome' = [listOutcome EXCEPT ![k] = "failed"]
  /\ UNCHANGED <<dlVars, authVars, noCanvasBefore,
                 mgr2Vars, lookupVars, now, expiredAtCall>>

NextCache ==
  \/ Tick
  \/ \E k \in CacheKeys : FetchListCall(k)
  \/ \E k \in CacheKeys, ok \in BOOLEAN, d \in ListData :
       FetchListReturn(k, ok, d)

CacheSpec == InitCache /\ [][NextCache]_vars

\* what the second manager leaves alone: everything but the game setting
\* and its own position
untouchedBy2 ==
  <<mgrVars, histVars, obsVars, envVars, dlgVars, authVars, noCanvasBefore,
    lookupVars,
    cacheVars,
    concurrency, hang, runs, prevAborted, pc, nfiles, awaited,
    mediaOptimizerOriginalState, optimizerCalls, onCompleteCalls,
    workersLaunched>>

\* process() of the second manager: disableMediaOptimizer reads the setting
\* into its own service and suspends in game.settings.set
Process2 ==
  /\ pc2 = "idle"
  /\ original2' = <<noCanvas>>
  /\ pc2' = "disabling"
  /\ UNCHANGED <<noCanvas, untouchedBy2>>

\* its game.settings.set returns; its workers start
Disable2Return(ok) ==
  /\ pc2 = "disabling"
  /\ noCanvas' = IF ok THEN TRUE ELSE noCanvas
  /\ pc2' = "waiting"
  /\ UNCHANGED <<original2, untouchedBy2>>

\* its workers have all settled; enableMediaOptimizer suspends in
\* game.settings.set
Workers2Settled ==
  /\ pc2 = "waiting"
  /\ pc2' = "enabling"
  /\ UNCHANGED <<noCanvas, original2, untouchedBy2>>

\* its enableMediaOptimizer returns and its process() resolves
Enable2Return(ok) ==
  /\ pc2 = "enabling"
  /\ IF ok
     THEN /\ noCanvas' = Head(original2)
          /\ original2' = <<>>
     ELSE UNCHANGED <<noCanvas, original2>>
  /\ pc2' = "done"
  /\ UNCHANGED untouchedBy2

\* two dialogs downloading at the same time
NextTwoManagers ==
  \/ Next
  \/ Process2
  \/ \E ok \in BOOLEAN : Disable2Return(ok)
  \/ Workers2Settled
  \/ \E ok \in BOOLEAN : Enable2Return(ok)

TwoManagerSpec == Init /\ [][NextTwoManagers]_vars

\* ---------------------------------------------------- PatreonAuthService

\* pollForAuthentication: const maxAttempts = 60
maxAttempts == 60

\* a poll loop that goes round once more
PollMoreInclusive(a) == a <= maxAttempts

\* pollForAuthentication: the loop condition
PollMore(a) == a < maxAttempts

\* what the request of checkUserStatus can come to: a user, a JSON null, a
\* 404, another error status, or a failed fetch
CheckOutcomes == UserData \cup {"json_null", "404", "500", "network_error"}

\* APIService.checkUserStatus: null without a user id, null for a 404, null
\* for whatever was caught
CheckUserStatus(uid, outcome) ==
  IF uid = NoUser THEN NullData
  ELSE IF outcome \in UserData THEN outcome
  ELSE NullData

\* the api service is a constructor argument of PatreonAuthService: the try
\* block of pollForAuthentication also covers a checkUserStatus that throws
PollOutcomes == CheckOutcomes \cup {"throws"}

authUntouched ==
  <<mgrVars, procVars, histVars, obsVars, remappedPaths, mapAccess, consumer,
    throws, dlgVars, noCanvasBefore, mgr2Vars, lookupVars, cacheVars>>

\* somebody logs in, with or without a user stored by an earlier login
InitAuth ==
  /\ concurrency = 1
  /\ hang = NoHang
  /\ observe = "none"
  /\ remappedPaths = NoTable
  /\ consumer = "plain"
  /\ throws = NoThrow
  /\ userId \in {NoUser, "uid"}
  /\ mapAccess = "Premium"
  /\ InitFields
  /\ LookupOff
  /\ CacheInit
  /\ authPc = "idle"
  /\ attempt = 0
  /\ checks = 0
  /\ yielded = NullData
  /\ loginResult = "none"
  /\ userBefore \in {NullData, "userOld"}
  /\ userSetting = userBefore
  /\ dlcUser = userBefore

\* login(): generateUserId, then game.settings.set(MODULE_ID, 'userId', ...)
Login ==
  /\ authPc = "idle"
  /\ authPc' = "saving_id"
  /\ UNCHANGED <<attempt, checks, yielded, loginResult, userSetting, dlcUser,
                 userBefore, userId, authUntouched>>

\* the setting is saved: setUserId, window.open, and pollForAuthentication up
\* to its first timer; or saving threw and the catch block returns null
SetUserIdReturn(ok) ==
  /\ authPc = "saving_id"
  /\ IF ok
     THEN /\ userId' = "uidNew"
          /\ attempt' = 0
          /\ IF PollMore(0)
             THEN authPc' = "timer" /\ UNCHANGED loginResult
             ELSE authPc' = "returned" /\ loginResult' = NullData
     ELSE /\ authPc' = "returned"
          /\ loginResult' = NullData
          /\ UNCHANGED <<userId, attempt>>
  /\ UNCHANGED <<checks, yielded, userSetting, dlcUser, userBefore,
                 authUntouched>>

\* the 2 s timer fires: checkUserStatus is called
TimerFires ==
  /\ authPc = "timer"
  /\ authPc' = "checking"
  /\ checks' = checks + 1
  /\ UNCHANGED <<attempt, yielded, loginResult, userSetting, dlcUser,
                 userBefore, userId, authUntouched>>

\* checkUserStatus settles.  A user ends the poll and login() goes on to save
\* it; anything else ends this round of the loop, and after the last round
\* the poll returns null and so does login().
CheckReturn(outcome) ==
  /\ authPc = "checking"
  /\ LET userData == IF outcome = "throws" THEN NullData
                     ELSE CheckUserStatus(userId, outcome)
     IN  IF userData # NullData
         THEN /\ yielded' = userData
              /\ authPc' = "saving_user"
              /\ UNCHANGED <<attempt, loginResult>>
         ELSE /\ attempt' = attempt + 1
              /\ IF PollMore(attempt + 1)
                 THEN authPc' = "timer" /\ UNCHANGED loginResult
                 ELSE authPc' = "returned" /\ loginResult' = NullData
              /\ UNCHANGED yielded
  /\ UNCHANGED <<checks, userSetting, dlcUser, userBefore, userId,
                 authUntouched>>

\* game.settings.set(MODULE_ID, 'user', userData) settles: the global state is
\* updated and the user returned, or the catch block returns null
SetUserReturn(ok) ==
  /\ authPc = "saving_user"
  /\ authPc' = "returned"
  /\ IF ok
     THEN /\ userSetting' = yielded
          /\ dlcUser' = yielded
          /\ loginResult' = yielded
     ELSE /\ loginResult' = NullData
          /\ UNCHANGED <<userSetting, dlcUser>>
  /\ UNCHANGED <<attempt, checks, yielded, userBefore, userId, authUntouched>>

NextAuth ==
  \/ Login
  \/ \E ok \in BOOLEAN : SetUserIdReturn(ok)
  \/ TimerFires
  \/ \E o \in PollOutcomes : CheckReturn(o)
  \/ \E ok \in BOOLEAN : SetUserReturn(ok)

AuthSpec == InitAuth /\ [][NextAuth]_vars

\* Timers fire, and every request and every settings write settles.
AuthFairness ==
  /\ WF_vars(\E ok \in BOOLEAN : SetUserIdReturn(ok))
  /\ WF_vars(TimerFires)
  /\ WF_vars(\E o \in PollOutcomes : CheckReturn(o))
  /\ WF_vars(\E ok \in BOOLEAN : SetUserReturn(ok))

FairAuthSpec == AuthSpec /\ AuthFairness

\* the manager created by a DownloadDialog, which is its only caller
InitDialog ==
  /\ concurrency \in 1 .. MaxConc
  /\ hang = NoHang
  /\ observe = "none"
  /\ remappedPaths = NoTable
  /\ consumer = "dialog"
  /\ throws = NoThrow
  /\ userId = "uid"
  /\ mapAccess = "Premium"
  /\ InitFields
  /\ OthersOff

DialogSpec == InitDialog /\ [][Next]_vars

\* the manager, with the files recorded whose existence check failed
InitBrowse ==
  /\ concurrency \in 1 .. MaxConc
  /\ hang = NoHang
  /\ observe = "browse"
  /\ remappedPaths = NoTable
  /\ consumer = "plain"
  /\ throws = NoThrow
  /\ userId = "uid"
  /\ mapAccess = "Premium"
  /\ InitFields
  /\ OthersOff

BrowseSpec == InitBrowse /\ [][Next]_vars

\* the manager with callbacks of which one may throw
InitThrowing ==
  /\ concurrency \in 1 .. MaxConc
  /\ hang = NoHang
  /\ observe = "none"
  /\ remappedPaths = NoTable
  /\ consumer = "plain"
  /\ throws \in Throwing
  /\ userId = "uid"
  /\ mapAccess = "Premium"
  /\ InitFields
  /\ OthersOff

ThrowSpec == InitThrowing /\ [][Next]_vars

\* the manager with a transfer that may never resolve
HangSpec == InitHang /\ [][Next]_vars

\* the manager under any constructor argument
ConfigSpec == InitAnyConcurrency /\ [][Next]_vars

\* Every collaborator call eventually returns or fails and every runnable
\* continuation runs; calling process() and abort() is the caller's choice.
Fairness ==
  /\ WF_vars(\E ok \in BOOLEAN : DisableReturn(ok))
  /\ WF_vars(\E w \in Workers, o \in BrowseOutcomes : ExistsReturn(w, o))
  /\ WF_vars(\E w \in Workers, ok \in BOOLEAN : FetchReturn(w, ok))
  /\ WF_vars(\E w \in Workers, ok \in BOOLEAN : UploadReturn(w, ok))
  /\ WF_vars(AllSettledWake)
  /\ WF_vars(\E ok \in BOOLEAN : EnableReturn(ok))

FairSpec == Spec /\ Fairness

TypeOK ==
  /\ pc \in {"idle", "disabling", "waiting", "enabling", "done",
            "enabling_catch", "rejected"}
  /\ nfiles \in 0 .. MaxFiles
  /\ Len(status) = nfiles
  /\ \A f \in 1 .. nfiles :
       status[f] \in {"pending", "downloading", "processing", "completed", "error"}
  /\ \A w \in Workers :
       wpc[w] \in {"unlaunched", "exists", "fetch", "upload", "finished",
                   "rejected"}

\* ------------------------------------------------------------ properties

Done == pc = "done"
Terminal == {"completed", "error"}
InFlight == WithStatus({"downloading", "processing"})
ResultFiles(res) == {res[i].file : i \in 1 .. Len(res)}
NoDuplicates(res) ==
  \A i, j \in 1 .. Len(res) : res[i].file = res[j].file => i = j
NumCalled(cs) == Cardinality({f \in 1 .. Len(cs) : cs[f] > 0})

\* C1: when abort() is never called during the invocation, process() resolves
\* and the resolved list has exactly one entry per input file, each completed
\* or error.
C1_OneEntryPerFile ==
  /\ [](Done /\ ~abortedRun =>
          /\ Len(results) = nfiles
          /\ ResultFiles(results) = 1 .. nfiles
          /\ NoDuplicates(results)
          /\ \A i \in 1 .. Len(results) : results[i].status \in Terminal)
  /\ (InProgress ~> Done)

C1_Witness ==
  /\ Done /\ ~abortedRun /\ nfiles >= 2
  /\ CountStatus(results, "completed") >= 1
  /\ CountStatus(results, "error") >= 1

\* C2: when the fetch or upload fails for exactly one of the n files (and
\* abort() is not called), the result list has n-1 completed entries and one
\* error entry, every file was attempted, and onComplete got all n entries.
C2_SingleFailureIsolated ==
  Done /\ ~abortedRun /\ Cardinality(failed) = 1 =>
    /\ CountStatus(results, "completed") = nfiles - 1
    /\ CountStatus(results, "error") = 1
    /\ claimed = 1 .. nfiles
    /\ Len(onCompleteCalls) = 1
    /\ Len(onCompleteCalls[1]) = nfiles
    /\ ResultFiles(onCompleteCalls[1]) = 1 .. nfiles

C2_Witness ==
  /\ Done /\ ~abortedRun /\ nfiles >= 2
  /\ failed = {1}
  /\ workersLaunched = 1
  /\ CountStatus(results, "completed") = nfiles - 1

\* C3: onComplete fires exactly once per invocation, not before every
\* launched worker has finished: when it has fired no file is downloading or
\* processing, and the result list stays what onComplete was given.
C3_OnCompleteOnceAfterDrain ==
  /\ [](/\ Len(onCompleteCalls) <= 1
        /\ (Done <=> Len(onCompleteCalls) = 1)
        /\ Len(onCompleteCalls) = 1 =>
             /\ InFlight = {}
             /\ \A w \in 1 .. workersLaunched : wpc[w] = "finished"
             /\ results = onCompleteCalls[1])
  /\ (InProgress ~> Len(onCompleteCalls) = 1)

C3_Witness ==
  /\ Len(onCompleteCalls) = 1
  /\ workersLaunched >= 2
  /\ Len(results) >= 3

\* C4: process() launches exactly min(concurrency, |files|) workers.
C4_LaunchesMinWorkers ==
  pc \in {"waiting", "enabling", "done"} /\ ~abortedBeforeLaunch =>
    workersLaunched = Min(concurrency, nfiles)

\* C5: the number of files that are downloading or processing never exceeds
\* the configured concurrency.
C5_BoundedParallelism == Cardinality(InFlight) <= concurrency

C5_Witness == concurrency >= 2 /\ Cardinality(InFlight) = concurrency

\* C6: a file that was pending when abort() was called during an invocation
\* is never claimed: it stays pending and no existence check, fetch or upload
\* is invoked for it.
C6_NoClaimAfterAbort ==
  \A f \in pendingAtAbort :
    /\ status[f] = "pending"
    /\ f \notin claimed
    /\ existsCalls[f] = 0 /\ fetchCalls[f] = 0 /\ uploadCalls[f] = 0

C6_Witness ==
  /\ Done /\ pendingAtAbort # {} /\ inflightAtAbort # {}
  /\ inflightAtAbort \subseteq ResultFiles(results)

\* C7: every file that was downloading or processing when abort() was called
\* still reaches completed or error and gets its result recorded.
C7_InFlightRunsToEnd ==
  (inflightAtAbort # {}) ~>
    (\A f \in inflightAtAbort :
       /\ status[f] \in Terminal
       /\ \E i \in 1 .. Len(results) :
            results[i].file = f /\ results[i].status = status[f])

C7_Witness ==
  /\ Cardinality(inflightAtAbort) >= 2
  /\ \E f \in inflightAtAbort : status[f] = "completed" /\ uploadCalls[f] = 1
  /\ \E f \in inflightAtAbort : status[f] = "error"

\* C8: an invocation aborted mid-flight still resolves and invokes
\* onComplete; the list passed and returned has exactly one entry for each
\* file claimed before abort() and none for a file that was never claimed.
C8_AbortedResultIsClaimed ==
  /\ [](Done /\ abortedRun =>
          /\ Len(onCompleteCalls) = 1
          /\ onCompleteCalls[1] = results
          /\ ResultFiles(results) = (1 .. nfiles) \ pendingAtAbort
          /\ ResultFiles(results) = claimed
          /\ NoDuplicates(results))
  /\ (abortedRun ~> Done)

C8_Witness ==
  /\ Done /\ abortedRun
  /\ pendingAtAbort # {}
  /\ inflightAtAbort # {}
  /\ Len(results) > Cardinality(inflightAtAbort)

\* C9: a file whose existence check returned true is completed, and neither
\* the fetch nor the upload is invoked for it.
C9_SkipExisting ==
  \A f \in existsTrue :
    /\ status[f] = "completed"
    /\ fetchCalls[f] = 0
    /\ uploadCalls[f] = 0
    /\ \E i \in 1 .. Len(results) :
         results[i] = [file |-> f, status |-> "completed", error |-> "none"]

C9_Witness == Done /\ existsTrue # {} /\ NumCalled(fetchCalls) >= 1

\* C10 as claimed: for files = [] process() resolves to [] without launching
\* a worker and without invoking the fetch collaborator or any method of the
\* storage collaborator.
C10_NoCollaboratorAtAll ==
  Done /\ nfiles = 0 =>
    /\ results = <<>>
    /\ workersLaunched = 0
    /\ NumCalled(fetchCalls) = 0 /\ NumCalled(existsCalls) = 0 /\ NumCalled(uploadCalls) = 0
    /\ optimizerCalls = 0

\* C10 amended: for files = [] process() resolves to [] without launching a
\* worker and without invoking the fetch collaborator, fileExists or
\* uploadFile; it does call disableMediaOptimizer and enableMediaOptimizer.
C10_EmptyBatch ==
  Done /\ nfiles = 0 =>
    /\ results = <<>>
    /\ onCompleteCalls = << <<>> >>
    /\ workersLaunched = 0
    /\ \A w \in Workers : wpc[w] = "unlaunched"
    /\ NumCalled(fetchCalls) = 0 /\ NumCalled(existsCalls) = 0 /\ NumCalled(uploadCalls) = 0
    /\ progress = <<>> /\ fileComplete = <<>>
    /\ optimizerCalls = 2

C10_Witness == Done /\ nfiles = 0 /\ ~abortedRun /\ optimizerCalls = 2

\* C11: whatever fetch and upload calls fail, process() never rejects, and
\* each failed file appears in the result list only as an error entry that
\* carries a message.
C11_ErrorsBecomeEntries ==
  /\ pc \notin {"enabling_catch", "rejected"}
  /\ \A w \in Workers : wpc[w] # "rejected"
  /\ \A f \in failed :
       \A i \in 1 .. Len(results) :
         results[i].file = f =>
           results[i].status = "error" /\ results[i].error = "message"
  /\ Done => \A f \in failed : f \in ResultFiles(results)

C11_Witness ==
  /\ Done
  /\ \E f \in failed : uploadCalls[f] = 1
  /\ \E f \in failed : uploadCalls[f] = 0
  /\ CountStatus(results, "error") = 2

\* C12: a manager configured with concurrency < 1 starts no batch: its
\* process() never resolves successfully for a non-empty files list.
C12_InvalidConcurrencyFatal ==
  concurrency < 1 => ~(Done /\ nfiles > 0 /\ ~abortedRun)

\* C13: every status transition of every file (pending -> downloading,
\* downloading -> processing, -> completed including the already-exists skip,
\* -> error) triggers at least one onProgress call.
C13_ProgressAfterEveryTransition ==
  [][\A f \in 1 .. Len(status) :
       (Len(status') = Len(status) /\ status'[f] # status[f])
         => Len(progress') > Len(progress)]_vars

\* C14: at the end of a non-aborted run with n >= 1 files the last onProgress
\* call reports completedFiles + failedFiles = n.
C14_LastProgressIsFinal ==
  Done /\ ~abortedRun /\ nfiles >= 1 =>
    /\ progress # <<>>
    /\ LET last == progress[Len(progress)]
       IN  last.completedFiles + last.failedFiles = nfiles

\* C15: during a non-aborted invocation every onProgress argument and every
\* getStats result has totalFiles = |files| and
\* completedFiles + failedFiles <= totalFiles.
C15_SnapshotOverFullSet ==
  (InProgress \/ Done) /\ ~abortedRun =>
    /\ \A i \in 1 .. Len(progress) :
         /\ progress[i].totalFiles = nfiles
         /\ progress[i].completedFiles + progress[i].failedFiles
              <= progress[i].totalFiles
    /\ GetStats.totalFiles = nfiles
    /\ GetStats.completedFiles + GetStats.failedFiles <= GetStats.totalFiles

\* C16: for every file recorded as completed (also one skipped because its
\* destination exists) or as error, onFileComplete(file, status) is invoked
\* exactly once.
C16_FileCompleteOncePerResult ==
  Done =>
    \A i \in 1 .. Len(results) :
      Cardinality({j \in 1 .. Len(fileComplete) :
                     fileComplete[j] = <<results[i].file, results[i].status>>})
        = 1

\* C17: each file goes through the per-file protocol once, without retries:
\* at most one worker holds it; its status only moves pending -> downloading
\* -> processing -> completed, or to error, and a terminal status never
\* changes; the existence check precedes the fetch, the upload is invoked
\* only after the fetch of that file succeeded, and the existence check, the
\* fetch and the upload are each invoked at most once per file.
ForwardSteps ==
  {<<"pending", "downloading">>, <<"downloading", "processing">>,
   <<"downloading", "completed">>, <<"downloading", "error">>,
   <<"processing", "completed">>, <<"processing", "error">>}

C17_ProtocolOncePerFile ==
  /\ [](\A f \in 1 .. Len(status) :
          /\ Cardinality({w \in Workers : witem[w] = f}) <= 1
          /\ existsCalls[f] <= 1 /\ fetchCalls[f] <= 1 /\ uploadCalls[f] <= 1
          /\ fetchCalls[f] <= existsCalls[f]
          /\ uploadCalls[f] <= fetchCalls[f])
  /\ [][\A f \in 1 .. Len(status) :
          Len(status') = Len(status) =>
            /\ status'[f] # status[f] => <<status[f], status'[f]>> \in ForwardSteps
            /\ fetchCalls'[f] # fetchCalls[f] =>
                 existsCalls[f] = 1 /\ f \notin existsTrue'
            /\ uploadCalls'[f] # uploadCalls[f] =>
                 /\ fetchCalls[f] = 1
                 /\ f \notin failed'
                 /\ status[f] = "downloading" /\ status'[f] = "processing"]_vars

C17_Witness ==
  /\ Done
  /\ \E f \in 1 .. Len(status) : status[f] = "completed" /\ uploadCalls[f] = 1
  /\ \E f \in 1 .. Len(status) : status[f] = "error" /\ fetchCalls[f] = 1
  /\ existsTrue # {}

\* C18: files are claimed in input order: a file is claimed only when every
\* file before it in the list has been claimed, and the claims (each one
\* announced by the onProgress call that names the file) follow list order.
C18_ClaimsInInputOrder ==
  /\ \A f \in claimed : \A g \in 1 .. f : g \in claimed
  /\ \A f \in 1 .. Len(status) : status[f] # "pending" => f \in claimed
  /\ \A i, j \in 1 .. Len(progress) :
       i < j => progress[i].currentFile < progress[j].currentFile

C18_Witness ==
  /\ Len(progress) = 3
  /\ witem[1] = 1
  /\ witem[2] = 3
  /\ status[2] \in Terminal

\* C19: with concurrency >= 2 and at least two files, when the fetch or the
\* upload of one file never returns (and abort() is not called), process()
\* never resolves and onComplete never fires, and every other file is still
\* claimed and reaches completed or error: once no other collaborator call
\* is outstanding, all other files are terminal.
HungCallMade ==
  \E w \in Workers : witem[w] = hang.file /\ wpc[w] = hang.stage

OnlyHungCallOutstanding ==
  /\ HungCallMade
  /\ \A w \in Workers :
       wpc[w] \in {"exists", "fetch", "upload"} =>
         witem[w] = hang.file /\ wpc[w] = hang.stage

C19_HangStallsOneSlot ==
  concurrency >= 2 /\ nfiles >= 2 /\ ~abortedRun /\ HungCallMade =>
    /\ pc = "waiting"
    /\ onCompleteCalls = <<>>
    /\ OnlyHungCallOutstanding =>
         \A f \in 1 .. nfiles : f # hang.file => status[f] \in Terminal

\* C20: a process() call made after an earlier call on the same manager has
\* resolved, aborted or not, starts clean: the aborted flag is down until
\* abort() is called again, the result list only holds files claimed by this
\* call, and without a new abort() every file of its list is attempted and
\* the resolved list has exactly one entry for each of them.
C20_ReuseIsClean ==
  runs >= 2 =>
    /\ InProgress /\ ~abortedRun => ~aborted
    /\ ResultFiles(results) \subseteq claimed
    /\ NoDuplicates(results)
    /\ Done /\ ~abortedRun =>
         /\ claimed = 1 .. nfiles
         /\ ResultFiles(results) = 1 .. nfiles
         /\ Len(results) = nfiles
         /\ onCompleteCalls = <<results>>

C20_Witness ==
  /\ runs = 2 /\ Done
  /\ prevAborted /\ ~abortedRun
  /\ nfiles >= 2
  /\ Len(results) = nfiles

\* C21: abort() while no process() call is in progress is a no-op: the result
\* list, getStats and the callback logs are unchanged by it, and the next
\* process() call starts with the aborted flag down, attempts every file of
\* its list and resolves with one entry for each.
C21_IdleAbortIsNoOp ==
  /\ [][~InProgress /\ idleAborted # "idle" /\ idleAborted' = "idle" =>
         /\ results' = results
         /\ GetStats' = GetStats
         /\ progress' = progress
         /\ fileComplete' = fileComplete
         /\ onCompleteCalls' = onCompleteCalls
         /\ pc' = pc]_vars
  /\ [](idleAborted = "before" =>
          /\ InProgress /\ ~abortedRun => ~aborted
          /\ Done /\ ~abortedRun =>
               /\ claimed = 1 .. nfiles
               /\ \A f \in 1 .. nfiles : existsCalls[f] = 1
               /\ ResultFiles(results) = 1 .. nfiles
               /\ Len(results) = nfiles)

C21_Witness ==
  /\ runs = 2 /\ Done
  /\ idleAborted = "before" /\ ~prevAborted /\ ~abortedRun
  /\ nfiles >= 2
  /\ Len(results) = nfiles

C23_LookupAcrossEncodings ==
  lkPc = "found" /\ requestPath \in Forms(logical) =>
    /\ lookup # Null
    /\ lookup = RemapFilePath(filePath)

C23_Witness ==
  /\ lkPc = "found"
  /\ logical = <<"x", "/", " ">>
  /\ filePath = <<"x", "/", "%", "2", "0">>
  /\ requestPath = logical
  /\ lookup = <<"x", "/", " ">>

\* C24: a Free map downloads without a login: with userId null no file fails
\* with the "User ID is required" error, every file that does not exist yet
\* reaches the backend, and a run in which no backend or storage call fails
\* ends with every file completed.
C24_FreeMapWithoutLogin ==
  mapAccess = "Free" /\ userId = NoUser =>
    /\ \A i \in 1 .. Len(results) : results[i].error # UserIdMessage
    /\ Done /\ ~abortedRun /\ failed = {} =>
         CountStatus(results, "completed") = nfiles

\* C25: when a cache entry exists but has expired and the request then
\* fails, fetchTags (fetchMaps) returns the expired data; it returns the
\* empty list only when no entry is stored.
C25_StaleCacheFallback ==
  \A k \in CacheKeys :
    listOutcome[k] = "failed" =>
      IF expiredAtCall[k] # NoData
      THEN listResult[k] = expiredAtCall[k]
      ELSE listResult[k] = EmptyList

\* C26: the media-optimizer setting is only changed for the time of the
\* downloads: once every process() call that was started has resolved or
\* rejected (and every restoring game.settings.set has succeeded, so that no
\* service still holds an original state), core.noCanvas has the value it had
\* before the first call, for one manager and for two managers running at
\* the same time.
C26_OptimizerRestored ==
  /\ pc \in {"idle", "done", "rejected"} /\ pc2 \in {"idle", "done"}
  /\ mediaOptimizerOriginalState = <<>> /\ original2 = <<>>
  => noCanvas = noCanvasBefore

\* C27: a download cancelled in the dialog while files were still pending
\* never ends as a success: the dialog does not set completed, does not run
\* the scene import and does not schedule its closing timer.
C27_CancelledNeverSucceeds ==
  consumer = "dialog" /\ pendingAtAbort # {} =>
    /\ ~completed
    /\ sceneImports = 0
    /\ ~autoClose

\* C28: a consumer callback that throws cannot corrupt the result list: the
\* list holds at most one entry per file and no file has both a completed and
\* an error entry.
C28_ThrowingCallbackKeepsResults ==
  /\ NoDuplicates(results)
  /\ \A i, j \in 1 .. Len(results) :
       results[i].file = results[j].file => results[i].status = results[j].status

\* C29: a failing existence check is never a per-file error: a file whose
\* browse call failed is not skipped, its fetch is called, and it has an error
\* entry only if its fetch or its upload failed; otherwise it ends completed
\* after its upload.
C29_BrowseFailureIsNotAnError ==
  \A f \in browseFailed :
    /\ f \notin existsTrue
    /\ fetchCalls[f] = 1
    /\ status[f] \in {"downloading", "processing", "completed", "error"}
    /\ status[f] = "error" <=> f \in failed
    /\ (\E i \in 1 .. Len(results) :
          results[i].file = f /\ results[i].status = "error") <=> f \in failed
    /\ status[f] = "completed" => uploadCalls[f] = 1
    /\ Done => status[f] \in Terminal /\ f \in ResultFiles(results)

C29_Witness ==
  /\ Done
  /\ \E f, g \in browseFailed :
       /\ status[f] = "completed" /\ uploadCalls[f] = 1
       /\ status[g] = "error" /\ g \in failed

\* C30: the authentication poll is bounded and login() terminates: at most 60
\* status checks are made; the first check that yields a user ends the poll
\* with that user and no further check; a check that yields nothing is
\* followed by the next round; after the 60th such check the poll returns null,
\* login() returns null and neither the stored user nor game.dlcMaps.user is
\* overwritten.
C30_PollBounded ==
  /\ [](checks <= maxAttempts)
  /\ [](yielded # NullData =>
         /\ authPc \in {"saving_user", "returned"}
         /\ checks = attempt + 1
         /\ loginResult \in {"none", yielded, NullData}
         /\ authPc = "returned" /\ loginResult # NullData =>
               loginResult = yielded /\ userSetting = yielded
                                      /\ dlcUser = yielded)
  /\ [](yielded = NullData =>
         /\ authPc = "timer" => checks = attempt /\ attempt < maxAttempts
         /\ authPc = "checking" => checks = attempt + 1
         /\ authPc = "returned" /\ checks > 0 =>
               checks = maxAttempts /\ attempt = maxAttempts
         /\ authPc = "returned" => loginResult = NullData
         /\ userSetting = userBefore
         /\ dlcUser = userBefore)
  /\ [][yielded' # yielded => yielded = NullData]_vars
  /\ (authPc # "idle" ~> authPc = "returned")

C30_Witness ==
  /\ authPc = "returned"
  /\ checks = maxAttempts
  /\ yielded = NullData
  /\ loginResult = NullData
  /\ userBefore = "userOld"
  /\ userSetting = "userOld"
  /\ dlcUser = "userOld"

====
